---- MODULE Spec2Model ----
(***************************************************************************)
(* A model of generate_snp500_tickers_financial_data.py: the fetcher       *)
(* fetch_growth_and_financials, the filter find_outperformers, the two     *)
(* formatters and calculate_growth_rate, and the head of the script that   *)
(* builds the ticker list and calls the fetcher.                           *)
(*                                                                         *)
(* Python values are tagged records: None, str (a sequence of one-char     *)
(* strings, so that Python's code-point ordering of str can be modelled),  *)
(* num (an integer amount hi * 10^6 + lo with a sign, because amounts      *)
(* exceed 32 bits) and float (an exact fraction num / den; the binary      *)
(* rounding of float64 is not modelled).                                   *)
(***************************************************************************)
EXTENDS Integers, Sequences, FiniteSets, TLC

VARIABLES
    pc,                 \* position of the running piece of code
    stock_tickers,      \* module variable, lines 161-163
    stock_tickers_data, \* module variable, line 164
    tickers,            \* fetch_growth_and_financials: its argument
    i,                  \* index of the ticker the for loop of line 97 is at
    p,                  \* index of the period the for loop of line 119 is at
    earnings,           \* local of fetch_growth_and_financials
    market_cap,         \* local of fetch_growth_and_financials
    revenue,            \* local of fetch_growth_and_financials
    result,             \* the record being built for tickers[i]
    financial_data,     \* the accumulation list
    fin_error,          \* history: the line whose failure ran the except of
                        \* line 108 for tickers[i], or "no"
    outcome,            \* history: what the last stock.history() call did
    stock_data,         \* find_outperformers: first argument
    benchmark_data,     \* find_outperformers: second argument
    stock_idx,          \* index of the record the for loop of line 147 is at
    outperformers,      \* find_outperformers: the list it builds
    start_price,        \* calculate_growth_rate: first argument
    end_price,          \* calculate_growth_rate: second argument
    growth_rate,        \* calculate_growth_rate: its result
    value,              \* format_currency: its argument
    formatted           \* format_currency: its result

vars == <<pc, stock_tickers, stock_tickers_data, tickers, i, p, earnings,
          market_cap, revenue, result, financial_data, fin_error, outcome,
          stock_data, benchmark_data, stock_idx, outperformers,
          start_price, end_price, growth_rate, value, formatted>>

fetchVars == <<tickers, i, p, earnings, market_cap, revenue, result,
               financial_data, fin_error, outcome>>
mainVars == <<stock_tickers, stock_tickers_data>>
filterVars == <<stock_data, benchmark_data, stock_idx, outperformers>>
growthVars == <<start_price, end_price, growth_rate>>
currencyVars == <<value, formatted>>
notFetchVars == <<mainVars, filterVars, growthVars, currencyVars>>

----------------------------------------------------------------------------
(* Bounds of the model *)

\* how many tickers of the list the fetcher is run on
MaxTickers == 2
\* how many entries of sample_tickers_4 the script's list keeps
MaxSampled == 1
\* how many entries of five_year_periods are looped over
MaxPeriods == 2
\* how many records the list given to find_outperformers holds at most
MaxStocks == 2
\* the largest price given to calculate_growth_rate
MaxPrice == 150

----------------------------------------------------------------------------
(* Python values *)

None == [py |-> "None"]
\* a name that is not bound yet (a local before its first assignment)
Unbound == [py |-> "unbound"]
Str(chars) == [py |-> "str", chars |-> chars]
Float(n, d) == [py |-> "float", num |-> n, den |-> d]
Num(neg, hi, lo) == [py |-> "num", neg |-> neg, hi |-> hi, lo |-> lo]

Million == 1000000
Billion == 1000000000

Abs(n) == IF n < 0 THEN -n ELSE n

RECURSIVE GCD(_, _)
GCD(a, b) == IF b = 0 THEN a ELSE GCD(b, a % b)

\* the fraction n / d (d > 0) in lowest terms
Rat(n, d) ==
    LET g == GCD(Abs(n), d)
    IN  Float(IF n < 0 THEN -(Abs(n) \div g) ELSE n \div g, d \div g)

DigitChar(d) ==
    CASE d = 0 -> "0" [] d = 1 -> "1" [] d = 2 -> "2" [] d = 3 -> "3"
      [] d = 4 -> "4" [] d = 5 -> "5" [] d = 6 -> "6" [] d = 7 -> "7"
      [] d = 8 -> "8" [] d = 9 -> "9"

RECURSIVE DecimalDigits(_)
DecimalDigits(n) ==
    IF n < 10 THEN <<DigitChar(n)>>
    ELSE DecimalDigits(n \div 10) \o <<DigitChar(n % 10)>>

\* the six digits of lo, zero padded
SixDigits(lo) ==
    [k \in 1..6 |->
        DigitChar((lo \div (CASE k = 1 -> 100000 [] k = 2 -> 10000
                              [] k = 3 -> 1000 [] k = 4 -> 100
                              [] k = 5 -> 10 [] k = 6 -> 1)) % 10)]

\* quotient q and remainder r of a division by d, rounded to the nearest
\* whole number, a tie going to the even one (":.2f" rounds the binary value
\* of the float, which can lie on either side of a decimal tie; the values
\* formatted in this model are on no tie)
RoundStep(q, r, d) ==
    q + (IF 2 * r > d THEN 1 ELSE IF 2 * r < d THEN 0 ELSE q % 2)

RoundHalfEven(n, d) == RoundStep(n \div d, n % d, d)

\* Python's ":.2f" of a value whose sign is neg and whose magnitude,
\* rounded, is h hundredths
Fixed2(neg, h) ==
    (IF neg THEN <<"-">> ELSE <<>>) \o DecimalDigits(h \div 100)
        \o <<".", DigitChar((h % 100) \div 10), DigitChar(h % 10)>>

----------------------------------------------------------------------------
(* Configuration of the script *)

FivePeriodTable ==
    <<"1994-1999", "1999-2004", "2004-2009", "2009-2014", "2014-2019",
      "2019-2024">>

\* the entries of the table the model loops over
five_year_periods == SubSeq(FivePeriodTable, 1, MaxPeriods)

ten_year_periods == <<"1994-2004", "2004-2014", "2014-2024">>

sample_tickers_4 ==
    <<"QQQ", "ACN", "GOOGL", "GOOG", "AMZN", "APH", "ADI", "AAPL", "AJG",
      "AZO", "AXON", "AVGO", "CDNS", "CAT", "CBRE", "CTAS", "CPRT", "COST",
      "DHR", "DECK", "DE", "DXCM", "DHI", "EQIX", "ERIE", "FICO", "FI",
      "FTNT", "GRMN", "IT", "HD", "IDXX", "PODD", "INTU", "ISRG", "JBL",
      "KLAC", "LRCX", "LOW", "MAR", "MMC", "MAS", "MA", "MTD", "MOH", "MPWR",
      "MCO", "MSI", "MSCI", "NFLX", "NVDA", "NVR", "NXPI", "ORLY", "ODFL",
      "PKG", "POOL", "RJF", "SPGI", "NOW", "SHW", "TER", "TSLA", "TMO",
      "TJX", "TT", "TDG", "TYL", "UNH", "VRSK", "VRTX", "WST", "ADBE", "AMD",
      "GOOG", "GOOGL", "AMZN", "AAPL", "AMAT", "AVGO", "COST", "ISRG",
      "INTU", "LLY", "MSFT", "NVDA", "NOW">>

snp500_ticker == "SPY"
qqq_ticker == "QQQ"

\* list.insert(0, x)
Insert0(list, x) == <<x>> \o list

----------------------------------------------------------------------------
(* The data provider (yfinance): what its calls can answer *)

\* the Close column of a non-empty price history: a sample of series, the
\* prices positive
PriceSeries == {<<1, 2>>, <<1, 3, 2>>, <<2, 3>>}

\* stock.financials.loc['Net Income'].iloc[0]
NetIncomes == {Num(FALSE, 2, 500000)}
\* stock.info.get('marketCap', None)
MarketCaps == {None, Num(FALSE, 2500, 0)}
\* stock.financials.loc['Total Revenue'].iloc[0]
TotalRevenues == {Num(FALSE, 0, 999)}

----------------------------------------------------------------------------
(* The pure functions *)

\* a plausible slip: the change is taken relative to the end price
calculate_growth_rate_by_end(start, end) ==
    LET quotient == Rat(end - start, end)
    IN  Rat(quotient.num * 100, quotient.den)

calculate_growth_rate(start, end) ==
    LET quotient == Rat(end - start, start)
    IN  Rat(quotient.num * 100, quotient.den)

\* value >= 1e9, value >= 1e6
AtLeastBillion(v) == ~v.neg /\ v.hi >= Billion \div Million
AtLeastMillion(v) == ~v.neg /\ v.hi >= 1

\* a plausible slip: the thresholds are tested in the wrong order
format_currency_millions_first(v) ==
    IF v = None THEN Str(<<"N", "/", "A">>)
    ELSE IF AtLeastMillion(v)
    THEN Str(<<"$">> \o Fixed2(FALSE, RoundStep(v.hi * 100 + v.lo \div 10000,
                                                 v.lo % 10000, 10000))
             \o <<"M">>)
    ELSE Str(<<"$">> \o (IF v.neg THEN <<"-">> ELSE <<>>)
             \o (IF v.hi = 0 THEN DecimalDigits(v.lo)
                 ELSE DecimalDigits(v.hi) \o SixDigits(v.lo))
             \o <<".", "0", "0">>)

format_currency(v) ==
    IF v = None THEN Str(<<"N", "/", "A">>)
    ELSE IF AtLeastBillion(v)
    THEN Str(<<"$">> \o Fixed2(FALSE, RoundStep(v.hi \div 10,
                                                 (v.hi % 10) * Million + v.lo,
                                                 10 * Million))
             \o <<"B">>)
    ELSE IF AtLeastMillion(v)
    THEN Str(<<"$">> \o Fixed2(FALSE, RoundStep(v.hi * 100 + v.lo \div 10000,
                                                 v.lo % 10000, 10000))
             \o <<"M">>)
    ELSE Str(<<"$">> \o (IF v.neg THEN <<"-">> ELSE <<>>)
             \o (IF v.hi = 0 THEN DecimalDigits(v.lo)
                 ELSE DecimalDigits(v.hi) \o SixDigits(v.lo))
             \o <<".", "0", "0">>)

format_percentage(v) ==
    IF v = None THEN Str(<<"N", "/", "A">>)
    ELSE Str(Fixed2(v.num < 0, RoundHalfEven(Abs(v.num) * 100, v.den))
             \o <<"%">>)


----------------------------------------------------------------------------
(* fetch_growth_and_financials, lines 94-141 *)

\* dict[key] = val
Put(dict, key, val) ==
    [k \in DOMAIN dict \cup {key} |-> IF k = key THEN val ELSE dict[k]]

\* the set of the entries of a list
Range(list) == {list[k] : k \in 1..Len(list)}

\* lines 97-99: the next ticker, and a fresh record for it
NextTicker ==
    /\ pc = "for_ticker"
    /\ i <= Len(tickers)
    /\ result' = [k \in {"Ticker"} |-> tickers[i]]
    /\ fin_error' = "no"
    /\ outcome' = "none"
    /\ pc' = "earnings"
    /\ UNCHANGED <<tickers, i, p, earnings, market_cap, revenue,
                   financial_data>>
    /\ UNCHANGED notFetchVars

\* line 103
GetEarnings ==
    /\ pc = "earnings"
    /\ \E e \in NetIncomes : earnings' = e
    /\ pc' = "market_cap"
    /\ UNCHANGED <<tickers, i, p, market_cap, revenue, result,
                   financial_data, fin_error, outcome>>
    /\ UNCHANGED notFetchVars

\* line 104
GetMarketCap ==
    /\ pc = "market_cap"
    /\ \E m \in MarketCaps : market_cap' = m
    /\ pc' = "revenue"
    /\ UNCHANGED <<tickers, i, p, earnings, revenue, result,
                   financial_data, fin_error, outcome>>
    /\ UNCHANGED notFetchVars

\* line 105
GetRevenue ==
    /\ pc = "revenue"
    /\ \E r \in TotalRevenues : revenue' = r
    /\ pc' = "format"
    /\ UNCHANGED <<tickers, i, p, earnings, market_cap, result,
                   financial_data, fin_error, outcome>>
    /\ UNCHANGED notFetchVars

\* any of lines 103-105 raises: control goes to the except of line 108
FundamentalsRaise ==
    /\ pc \in {"earnings", "market_cap", "revenue"}
    /\ fin_error' = pc
    /\ pc' = "except"
    /\ UNCHANGED <<tickers, i, p, earnings, market_cap, revenue, result,
                   financial_data, outcome>>
    /\ UNCHANGED notFetchVars

\* a plausible slip: the handler leaves what was fetched before the failure
ExceptEarnings_kept(fetched) == fetched

\* line 110: what earnings is set to, whatever it held
ExceptEarnings(fetched) == None

\* lines 108-112
ExceptFundamentals ==
    /\ pc = "except"
    /\ earnings' = ExceptEarnings(earnings)
    /\ market_cap' = None
    /\ revenue' = None
    /\ pc' = "format"
    /\ UNCHANGED <<tickers, i, p, result, financial_data, fin_error,
                   outcome>>
    /\ UNCHANGED notFetchVars

\* lines 114-116
FormatFundamentals ==
    /\ pc = "format"
    /\ result' = Put(Put(Put(result,
                             "Latest Revenue", format_currency(revenue)),
                         "Latest Earnings", format_currency(earnings)),
                     "Market Cap", format_currency(market_cap))
    /\ p' = 1
    /\ pc' = "for_period"
    /\ UNCHANGED <<tickers, i, earnings, market_cap, revenue, financial_data,
                   fin_error, outcome>>
    /\ UNCHANGED notFetchVars

\* the loop of line 119 moves on, or ends and line 139 is next
AfterPeriod ==
    /\ p' = p + 1
    /\ pc' = IF p < Len(five_year_periods) THEN "for_period" ELSE "append"

\* line 121 raises: lines 135-137
HistoryRaises ==
    /\ pc = "for_period"
    /\ result' = Put(result, five_year_periods[p], None)
    /\ outcome' = "error"
    /\ AfterPeriod
    /\ UNCHANGED <<tickers, i, earnings, market_cap, revenue, financial_data,
                   fin_error>>
    /\ UNCHANGED notFetchVars

\* a plausible slip: a period without rows counts as no growth
EmptyGrowth_zero == format_percentage(Float(0, 1))

\* line 125: what is stored for a period without rows
EmptyGrowth == None

\* line 121 returns no rows: lines 123-126
HistoryEmpty ==
    /\ pc = "for_period"
    /\ result' = Put(result, five_year_periods[p], EmptyGrowth)
    /\ outcome' = "empty"
    /\ AfterPeriod
    /\ UNCHANGED <<tickers, i, earnings, market_cap, revenue, financial_data,
                   fin_error>>
    /\ UNCHANGED notFetchVars

\* lines 128-131: what is stored for the Close column `close`
StoredGrowth(close) ==
    format_percentage(calculate_growth_rate(close[1], close[Len(close)]))

\* line 121 returns rows: lines 128-131
HistoryData ==
    /\ pc = "for_period"
    /\ \E close \in PriceSeries :
          result' = Put(result, five_year_periods[p], StoredGrowth(close))
    /\ outcome' = "data"
    /\ AfterPeriod
    /\ UNCHANGED <<tickers, i, earnings, market_cap, revenue, financial_data,
                   fin_error>>
    /\ UNCHANGED notFetchVars

\* a plausible slip: a record whose fundamentals failed is not kept
Appended_skips_failed(list, rec) ==
    IF fin_error # "no" THEN list ELSE Append(list, rec)

\* financial_data.append(result)
Appended(list, rec) == Append(list, rec)

\* line 139
AppendResult ==
    /\ pc = "append"
    /\ financial_data' = Appended(financial_data, result)
    /\ i' = i + 1
    /\ pc' = "for_ticker"
    /\ UNCHANGED <<tickers, p, earnings, market_cap, revenue, result,
                   fin_error, outcome>>
    /\ UNCHANGED notFetchVars

\* line 141: the loop of line 97 is over
FetchReturn ==
    /\ pc = "for_ticker"
    /\ i > Len(tickers)
    /\ pc' = "returned"
    /\ UNCHANGED fetchVars
    /\ UNCHANGED notFetchVars

----------------------------------------------------------------------------
(* The head of the script, lines 161-164 *)

\* line 161, the sample list cut to its first MaxSampled entries
MainAssignTickers ==
    /\ pc = "line_161"
    /\ stock_tickers' = SubSeq(sample_tickers_4, 1, MaxSampled)
    /\ pc' = "line_162"
    /\ UNCHANGED <<stock_tickers_data, fetchVars, filterVars, growthVars,
                   currencyVars>>

\* line 162
MainInsertQqq ==
    /\ pc = "line_162"
    /\ stock_tickers' = Insert0(stock_tickers, qqq_ticker)
    /\ pc' = "line_163"
    /\ UNCHANGED <<stock_tickers_data, fetchVars, filterVars, growthVars,
                   currencyVars>>

\* line 163
MainInsertSnp ==
    /\ pc = "line_163"
    /\ stock_tickers' = Insert0(stock_tickers, snp500_ticker)
    /\ pc' = "line_164"
    /\ UNCHANGED <<stock_tickers_data, fetchVars, filterVars, growthVars,
                   currencyVars>>

\* line 164, the call: lines 94-95
MainCallFetch ==
    /\ pc = "line_164"
    /\ tickers' = stock_tickers
    /\ financial_data' = <<>>
    /\ i' = 1
    /\ pc' = "for_ticker"
    /\ UNCHANGED <<p, earnings, market_cap, revenue, result, fin_error,
                   outcome>>
    /\ UNCHANGED notFetchVars

\* line 164, the assignment of what the call returned
MainStoreData ==
    /\ pc = "returned"
    /\ stock_tickers_data' = financial_data
    /\ pc' = "line_167"
    /\ UNCHANGED <<stock_tickers, fetchVars, filterVars, growthVars,
                   currencyVars>>

----------------------------------------------------------------------------
(* find_outperformers, lines 145-153 *)

\* the code point of a character of the stored strings
Ord(c) ==
    CASE c = "%" -> 37 [] c = "-" -> 45 [] c = "." -> 46 [] c = "/" -> 47
      [] c = "0" -> 48 [] c = "1" -> 49 [] c = "2" -> 50 [] c = "3" -> 51
      [] c = "4" -> 52 [] c = "5" -> 53 [] c = "6" -> 54 [] c = "7" -> 55
      [] c = "8" -> 56 [] c = "9" -> 57 [] c = "A" -> 65 [] c = "N" -> 78

\* a plausible slip: >= for >
RECURSIVE StrGreaterEq(_, _)
StrGreaterEq(a, b) ==
    IF b = <<>> THEN TRUE
    ELSE IF a = <<>> THEN FALSE
    ELSE IF Ord(Head(a)) # Ord(Head(b)) THEN Ord(Head(a)) > Ord(Head(b))
    ELSE StrGreaterEq(Tail(a), Tail(b))

\* Python's a > b of two str: by code point, the first difference decides
RECURSIVE StrGreater(_, _)
StrGreater(a, b) ==
    IF a = <<>> THEN FALSE
    ELSE IF b = <<>> THEN TRUE
    ELSE IF Ord(Head(a)) # Ord(Head(b)) THEN Ord(Head(a)) > Ord(Head(b))
    ELSE StrGreater(Tail(a), Tail(b))

\* a plausible slip: a period without a value is skipped, not failed
Qualifies_skips_missing(stock, benchmark) ==
    \A q \in 1..Len(five_year_periods) :
        LET period == five_year_periods[q]
        IN  \/ stock[period] = None
            \/ benchmark[period] = None
            \/ StrGreater(stock[period].chars, benchmark[period].chars)

\* a plausible slip: a tie with the benchmark passes
Qualifies_ties_pass(stock, benchmark) ==
    \A q \in 1..Len(five_year_periods) :
        LET period == five_year_periods[q]
        IN  /\ stock[period] # None
            /\ benchmark[period] # None
            /\ StrGreaterEq(stock[period].chars, benchmark[period].chars)

\* lines 149-151: the condition of the if
Qualifies(stock, benchmark) ==
    \A q \in 1..Len(five_year_periods) :
        LET period == five_year_periods[q]
        IN  /\ stock[period] # None
            /\ benchmark[period] # None
            /\ StrGreater(stock[period].chars, benchmark[period].chars)

\* lines 147-152, for one record of stock_data
FilterStock ==
    /\ pc = "for_stock"
    /\ stock_idx <= Len(stock_data)
    /\ outperformers' =
          IF Qualifies(stock_data[stock_idx], benchmark_data)
          THEN Append(outperformers, stock_data[stock_idx]["Ticker"])
          ELSE outperformers
    /\ stock_idx' = stock_idx + 1
    /\ pc' = "for_stock"
    /\ UNCHANGED <<stock_data, benchmark_data>>
    /\ UNCHANGED <<mainVars, fetchVars, growthVars, currencyVars>>

\* line 153
FilterReturn ==
    /\ pc = "for_stock"
    /\ stock_idx > Len(stock_data)
    /\ pc' = "filtered"
    /\ UNCHANGED <<mainVars, fetchVars, filterVars, growthVars, currencyVars>>

----------------------------------------------------------------------------
(* calculate_growth_rate and format_currency, called on their own *)

\* lines 70-71
CalculateGrowthRate ==
    /\ pc = "growth_call"
    /\ growth_rate' = calculate_growth_rate(start_price, end_price)
    /\ pc' = "growth_done"
    /\ UNCHANGED <<start_price, end_price>>
    /\ UNCHANGED <<mainVars, fetchVars, filterVars, currencyVars>>

\* lines 75-83
FormatCurrency ==
    /\ pc = "currency_call"
    /\ formatted' = format_currency(value)
    /\ pc' = "currency_done"
    /\ UNCHANGED value
    /\ UNCHANGED <<mainVars, fetchVars, filterVars, growthVars>>

----------------------------------------------------------------------------
(* Values of the variables a specification does not use *)

MainIdle == stock_tickers = <<>> /\ stock_tickers_data = <<>>

\* line 95, and the names fetch_growth_and_financials has not bound yet
FetchEntry(list) ==
    /\ tickers = list
    /\ financial_data = <<>>
    /\ i = 1
    /\ p = 1
    /\ earnings = Unbound
    /\ market_cap = Unbound
    /\ revenue = Unbound
    /\ result = Unbound
    /\ fin_error = "no"
    /\ outcome = "none"

FilterIdle ==
    /\ stock_data = <<>>
    /\ benchmark_data = Unbound
    /\ stock_idx = 1
    /\ outperformers = <<>>

GrowthIdle == start_price = 1 /\ end_price = 1 /\ growth_rate = Unbound

CurrencyIdle == value = None /\ formatted = Unbound

----------------------------------------------------------------------------
(* Spec: fetch_growth_and_financials run on the first tickers of the       *)
(* list the script hands it                                                *)

\* stock_tickers after lines 161-163, the sample list in full
FullTickers ==
    Insert0(Insert0(sample_tickers_4, qqq_ticker), snp500_ticker)

Init ==
    /\ pc = "for_ticker"
    /\ \E n \in 1..MaxTickers : FetchEntry(SubSeq(FullTickers, 1, n))
    /\ MainIdle /\ FilterIdle /\ GrowthIdle /\ CurrencyIdle

Next ==
    \/ NextTicker
    \/ GetEarnings
    \/ GetMarketCap
    \/ GetRevenue
    \/ FundamentalsRaise
    \/ ExceptFundamentals
    \/ FormatFundamentals
    \/ HistoryRaises
    \/ HistoryEmpty
    \/ HistoryData
    \/ AppendResult
    \/ FetchReturn

Spec == Init /\ [][Next]_vars

----------------------------------------------------------------------------
(* SpecMain: the script from line 161 to line 164 *)

InitMain ==
    /\ pc = "line_161"
    /\ FetchEntry(<<>>)
    /\ MainIdle /\ FilterIdle /\ GrowthIdle /\ CurrencyIdle

NextMain ==
    \/ MainAssignTickers
    \/ MainInsertQqq
    \/ MainInsertSnp
    \/ MainCallFetch
    \/ NextTicker
    \/ GetEarnings
    \/ GetMarketCap
    \/ GetRevenue
    \/ FundamentalsRaise
    \/ ExceptFundamentals
    \/ FormatFundamentals
    \/ HistoryRaises
    \/ HistoryEmpty
    \/ HistoryData
    \/ AppendResult
    \/ FetchReturn
    \/ MainStoreData

SpecMain == InitMain /\ [][NextMain]_vars

----------------------------------------------------------------------------
(* SpecFilter: find_outperformers called on records as the fetcher stores  *)
(* them                                                                    *)

\* what the fetcher can store for a period
StoredGrowths == {None} \cup {StoredGrowth(close) : close \in PriceSeries}

\* the record the fetcher builds for a ticker whose fundamentals failed and
\* whose periods gave the values growths[1], growths[2], ...
FetchedRecord(ticker, growths) ==
    [k \in {"Ticker", "Latest Revenue", "Latest Earnings", "Market Cap"}
            \cup Range(five_year_periods) |->
        IF k = "Ticker" THEN ticker
        ELSE IF k \in Range(five_year_periods)
        THEN growths[CHOOSE q \in 1..Len(five_year_periods) :
                        five_year_periods[q] = k]
        ELSE format_currency(None)]

GrowthRows == [1..Len(five_year_periods) -> StoredGrowths]

InitFilter ==
    /\ pc = "for_stock"
    /\ \E g \in GrowthRows : benchmark_data = FetchedRecord(snp500_ticker, g)
    /\ \E n \in 1..MaxStocks :
          \E rows \in [1..n -> GrowthRows] :
              stock_data = [k \in 1..n |-> FetchedRecord(FullTickers[k], rows[k])]
    /\ stock_idx = 1
    /\ outperformers = <<>>
    /\ FetchEntry(<<>>)
    /\ MainIdle /\ GrowthIdle /\ CurrencyIdle

NextFilter ==
    \/ FilterStock
    \/ FilterReturn

SpecFilter == InitFilter /\ [][NextFilter]_vars

----------------------------------------------------------------------------
(* SpecGrowth: calculate_growth_rate on every pair of positive prices up   *)
(* to MaxPrice                                                             *)

InitGrowth ==
    /\ pc = "growth_call"
    /\ start_price \in 1..MaxPrice
    /\ end_price \in 1..MaxPrice
    /\ growth_rate = Unbound
    /\ FetchEntry(<<>>)
    /\ MainIdle /\ FilterIdle /\ CurrencyIdle

NextGrowth == CalculateGrowthRate

SpecGrowth == InitGrowth /\ [][NextGrowth]_vars

----------------------------------------------------------------------------
(* SpecCurrency: format_currency on amounts around its thresholds          *)

CurrencyHis == {0, 1, 2, 999, 1000, 2500}
CurrencyLos == {0, 1, 999, 4999, 500000, 999999}

\* None and the amounts +-(hi * 10^6 + lo); none lies halfway between two
\* two-decimal renderings, where the binary value of the float decides
CurrencyInputs ==
    {None} \cup
    ({Num(neg, hi, lo) :
         neg \in BOOLEAN, hi \in CurrencyHis, lo \in CurrencyLos}
     \ {Num(TRUE, 0, 0)})

InitCurrency ==
    /\ pc = "currency_call"
    /\ value \in CurrencyInputs
    /\ formatted = Unbound
    /\ FetchEntry(<<>>)
    /\ MainIdle /\ FilterIdle /\ GrowthIdle

NextCurrency == FormatCurrency

SpecCurrency == InitCurrency /\ [][NextCurrency]_vars

----------------------------------------------------------------------------
(* Reading stored values back, for the properties below *)

NA == Str(<<"N", "/", "A">>)

IsDigit(c) == c \in {"0", "1", "2", "3", "4", "5", "6", "7", "8", "9"}

DigitVal(c) == CHOOSE d \in 0..9 : DigitChar(d) = c

\* the number the digits of chars spell, whatever else chars holds
RECURSIVE DigitsValue(_)
DigitsValue(chars) ==
    IF chars = <<>> THEN 0
    ELSE LET rest == SubSeq(chars, 1, Len(chars) - 1)
             c == chars[Len(chars)]
         IN  IF IsDigit(c) THEN DigitsValue(rest) * 10 + DigitVal(c)
             ELSE DigitsValue(rest)

\* the hundredths of a percent a stored growth string such as "-33.33%" says
ParsePercent(v) ==
    IF v.chars[1] = "-" THEN -DigitsValue(v.chars) ELSE DigitsValue(v.chars)

IsPercentString(v) ==
    /\ v.py = "str"
    /\ Len(v.chars) >= 5
    /\ v.chars[Len(v.chars)] = "%"
    /\ v.chars[Len(v.chars) - 3] = "."

FundamentalsMissing(rec) ==
    /\ rec["Latest Revenue"] = NA
    /\ rec["Latest Earnings"] = NA
    /\ rec["Market Cap"] = NA

HasEveryPeriod(rec) == Range(five_year_periods) \subseteq DOMAIN rec

\* the period the last stock.history() call was for
LastPeriod == five_year_periods[p - 1]

----------------------------------------------------------------------------
(* C2 *)

C2_OneRecordPerTicker ==
    /\ Len(financial_data) = i - 1
    /\ i <= Len(tickers) + 1
    /\ \A k \in 1..Len(financial_data) :
          financial_data[k]["Ticker"] = tickers[k]
    /\ pc = "returned" => Len(financial_data) = Len(tickers)
    /\ pc # "returned" => ENABLED Next

C2_RecordsKept ==
    \A k \in 1..Len(financial_data) :
        /\ k <= Len(financial_data')
        /\ financial_data'[k] = financial_data[k]

\* C2: fetch_growth_and_financials holds, at every point, one record for each
\* ticker it is done with, in the order of the input, and returns one record
\* for each element of the input; whatever fails, a next step exists until
\* the return (the batch is never aborted), and no step removes or changes a
\* record that was appended.
C2_Theorem == []C2_OneRecordPerTicker /\ [][C2_RecordsKept]_vars

\* the fundamentals and the first period of the first ticker failed, and
\* the second ticker's record is there with its data
C2_Witness ==
    /\ pc = "returned"
    /\ Len(tickers) = 2
    /\ Len(financial_data) = 2
    /\ FundamentalsMissing(financial_data[1])
    /\ financial_data[1][five_year_periods[1]] = None
    /\ ~FundamentalsMissing(financial_data[2])
    /\ financial_data[2][five_year_periods[1]] # None

----------------------------------------------------------------------------
(* C3 *)

C3_AllThreeMissing ==
    fin_error # "no" =>
        /\ pc = "format" =>
              earnings = None /\ market_cap = None /\ revenue = None
        /\ pc \in {"for_period", "append"} => FundamentalsMissing(result)
        /\ pc = "append" => HasEveryPeriod(result)
        /\ pc \in {"for_ticker", "returned"} =>
              /\ Len(financial_data) = i - 1
              /\ financial_data[i - 1]["Ticker"] = tickers[i - 1]
              /\ FundamentalsMissing(financial_data[i - 1])
              /\ HasEveryPeriod(financial_data[i - 1])
        /\ pc # "returned" => ENABLED Next

\* C3: once a fundamentals line (103, 104 or 105) has raised for a ticker,
\* earnings, market cap and revenue are all None when they are formatted,
\* the record's three fields are "N/A", every period is still fetched, and
\* the record is appended under the ticker's symbol.
C3_Theorem == C3_AllThreeMissing

\* the revenue line raised, after earnings and market cap were fetched; the
\* record was appended with the three fields missing and a growth value
C3_Witness ==
    /\ pc = "for_ticker"
    /\ i > 1
    /\ fin_error = "revenue"
    /\ FundamentalsMissing(financial_data[i - 1])
    /\ \E q \in 1..Len(five_year_periods) :
          IsPercentString(financial_data[i - 1][five_year_periods[q]])

----------------------------------------------------------------------------
(* C4 *)

C4_PresentIffData ==
    /\ outcome # "none" =>
          /\ p > 1
          /\ LastPeriod \in DOMAIN result
          /\ (result[LastPeriod] # None) <=> (outcome = "data")
          /\ outcome = "data" => IsPercentString(result[LastPeriod])
    /\ \A k \in 1..Len(financial_data) :
          \A q \in 1..Len(five_year_periods) :
              LET v == financial_data[k][five_year_periods[q]]
              IN  v = None \/ IsPercentString(v)

C4_PeriodsIndependent ==
    /\ pc = "for_period" =>
          \A k \in DOMAIN result :
              k \in DOMAIN result' /\ result'[k] = result[k]
    /\ pc = "append" => financial_data' = Append(financial_data, result)

\* C4: the value stored for the period of the last history call is a growth
\* string exactly when the call returned rows, and None when it raised or
\* returned none; a period's step changes no value stored for another
\* period, and the record is appended as built.
C4_Theorem == []C4_PresentIffData /\ [][C4_PeriodsIndependent]_vars

\* the first period is missing and the second one has its growth
C4_Witness ==
    /\ pc = "append"
    /\ outcome = "data"
    /\ result[five_year_periods[1]] = None
    /\ IsPercentString(result[five_year_periods[2]])

----------------------------------------------------------------------------
(* C8 *)

\* C8 as claimed: every record the fetcher appends holds a growth entry for
\* each 10-year period as well.
C8_TenYearComputed ==
    \A k \in 1..Len(financial_data) :
        \A q \in 1..Len(ten_year_periods) :
            ten_year_periods[q] \in DOMAIN financial_data[k]

----------------------------------------------------------------------------
(* C7 *)

NoSymbolTwice(records) ==
    \A j, k \in 1..Len(records) :
        j # k => records[j]["Ticker"] # records[k]["Ticker"]

\* C7 as claimed: no symbol gets two records in a run, the table holds at
\* most one row per symbol, and no symbol is twice in the outperformer list.
C7_OncePerSymbol ==
    /\ NoSymbolTwice(financial_data)
    /\ NoSymbolTwice(stock_tickers_data)
    /\ \A j, k \in 1..Len(outperformers) :
          j # k => outperformers[j] # outperformers[k]

----------------------------------------------------------------------------
(* C1, C5, C6 *)

Complete(rec) ==
    \A q \in 1..Len(five_year_periods) : rec[five_year_periods[q]] # None

NumericallyBeats(stock, benchmark) ==
    \A q \in 1..Len(five_year_periods) :
        LET period == five_year_periods[q]
        IN  /\ stock[period] # None
            /\ benchmark[period] # None
            /\ ParsePercent(stock[period]) > ParsePercent(benchmark[period])

\* the records the loop of line 147 is done with
Processed == 1..(stock_idx - 1)

\* C1 as claimed: a ticker is returned if and only if its growth is present
\* and numerically above the benchmark's in every period.
C1_NumericOutperformers ==
    pc = "filtered" =>
        \A k \in 1..Len(stock_data) :
            (stock_data[k]["Ticker"] \in Range(outperformers))
                <=> NumericallyBeats(stock_data[k], benchmark_data)

C5_MissingExcluded ==
    /\ ~Complete(benchmark_data) => outperformers = <<>>
    /\ \A t \in Range(outperformers) :
          \E k \in Processed :
              stock_data[k]["Ticker"] = t /\ Complete(stock_data[k])
    /\ Len(outperformers)
          <= Cardinality({k \in Processed : Complete(stock_data[k])})

C5_MissingAddsNothing ==
    (/\ pc = "for_stock"
     /\ stock_idx <= Len(stock_data)
     /\ ~(Complete(stock_data[stock_idx]) /\ Complete(benchmark_data)))
        => outperformers' = outperformers

\* C5: nothing is returned when the benchmark misses a period's value; every
\* returned symbol is the symbol of a record with all its values; and the
\* loop's step for a record that misses a value, or under a benchmark that
\* misses one, adds nothing to the list.
C5_Theorem == []C5_MissingExcluded /\ [][C5_MissingAddsNothing]_vars

\* the first record misses the first period and is above the benchmark in
\* the second; only the second record's symbol is returned
C5_Witness ==
    /\ pc = "filtered"
    /\ Len(stock_data) = 2
    /\ Complete(benchmark_data)
    /\ stock_data[1][five_year_periods[1]] = None
    /\ stock_data[1][five_year_periods[2]] # None
    /\ StrGreater(stock_data[1][five_year_periods[2]].chars,
                  benchmark_data[five_year_periods[2]].chars)
    /\ outperformers = <<stock_data[2]["Ticker"]>>

Ties(rec) ==
    \E q \in 1..Len(five_year_periods) :
        /\ rec[five_year_periods[q]] # None
        /\ rec[five_year_periods[q]] = benchmark_data[five_year_periods[q]]

C6_TiesExcluded ==
    /\ \A t \in Range(outperformers) :
          \E k \in Processed :
              stock_data[k]["Ticker"] = t /\ ~Ties(stock_data[k])
    /\ Len(outperformers)
          <= Cardinality({k \in Processed : ~Ties(stock_data[k])})

C6_TieAddsNothing ==
    (/\ pc = "for_stock"
     /\ stock_idx <= Len(stock_data)
     /\ Ties(stock_data[stock_idx]))
        => outperformers' = outperformers

\* C6: every returned symbol is the symbol of a record that equals the
\* benchmark in no period, and the loop's step for a record that equals the
\* benchmark in some period adds nothing to the list, whatever the record
\* holds for the other periods.
C6_Theorem == []C6_TiesExcluded /\ [][C6_TieAddsNothing]_vars

\* the first record equals the benchmark in the first period and is above
\* it in the second; only the second record's symbol is returned
C6_Witness ==
    /\ pc = "filtered"
    /\ Len(stock_data) = 2
    /\ stock_data[1][five_year_periods[1]] # None
    /\ stock_data[1][five_year_periods[1]]
          = benchmark_data[five_year_periods[1]]
    /\ stock_data[1][five_year_periods[2]] # None
    /\ benchmark_data[five_year_periods[2]] # None
    /\ StrGreater(stock_data[1][five_year_periods[2]].chars,
                  benchmark_data[five_year_periods[2]].chars)
    /\ outperformers = <<stock_data[2]["Ticker"]>>

----------------------------------------------------------------------------
(* C9 *)

\* C9: for positive prices s and e the result r of calculate_growth_rate
\* is the fraction (e - s) * 100 / s in lowest terms: it is 0 exactly when
\* e = s, positive exactly when e > s, 50 for (100, 150), -50 for (100, 50).
C9_GrowthFormula ==
    pc = "growth_done" =>
        /\ growth_rate.den > 0
        /\ growth_rate.num * start_price
              = (end_price - start_price) * 100 * growth_rate.den
        /\ GCD(Abs(growth_rate.num), growth_rate.den) = 1
        /\ (growth_rate.num = 0) <=> (end_price = start_price)
        /\ (growth_rate.num > 0) <=> (end_price > start_price)
        /\ (start_price = 100 /\ end_price = 150)
              => growth_rate = Float(50, 1)
        /\ (start_price = 100 /\ end_price = 50)
              => growth_rate = Float(-50, 1)

C9_Witness ==
    /\ pc = "growth_done"
    /\ start_price = 100
    /\ end_price = 150
    /\ growth_rate = Float(50, 1)

----------------------------------------------------------------------------
(* C10 *)

\* 2 * |v - h * unit| <= unit, for v = hi * 10^6 + lo and unit = scale * 10^6
\* or unit = 10^6 / per: h is v in units, rounded to the nearest
NearestBillionths(h, v) ==
    LET d == v.hi - h * 10
    IN  d \in -5..5 /\ 2 * Abs(d * 1000000 + v.lo) <= 10000000

NearestMillionths(h, v) ==
    LET d == h - v.hi * 100
    IN  d \in 0..100 /\ 2 * Abs(v.lo - d * 10000) <= 10000

\* the digits of a plain rendering: without "$", the sign and ".00"
PlainDigits(s, neg) ==
    SubSeq(s, IF neg THEN 3 ELSE 2, Len(s) - 3)

PlainSays(s, v) ==
    LET digits == PlainDigits(s, v.neg)
        n == Len(digits)
    IN  /\ s[1] = "$"
        /\ v.neg => s[2] = "-"
        /\ SubSeq(s, Len(s) - 2, Len(s)) = <<".", "0", "0">>
        /\ n >= 1
        /\ \A k \in 1..n : IsDigit(digits[k])
        /\ IF n > 6
           THEN /\ DigitsValue(SubSeq(digits, 1, n - 6)) = v.hi
                /\ DigitsValue(SubSeq(digits, n - 5, n)) = v.lo
           ELSE v.hi = 0 /\ DigitsValue(digits) = v.lo

\* C10: format_currency gives a string for every input: "N/A" for None; for
\* a value of at least 10^9 "$", the value in billions to the nearest
\* hundredth and "B"; for a value of at least 10^6 below that "$", the value
\* in millions to the nearest hundredth and "M"; for every other value,
\* negative ones and zero too, "$" and the amount with ".00" and no suffix.
C10_FormByMagnitude ==
    pc = "currency_done" =>
        LET s == formatted.chars
        IN  /\ formatted.py = "str"
            /\ value = None => formatted = NA
            /\ (value # None /\ ~value.neg /\ value.hi >= 1000) =>
                  /\ s[1] = "$" /\ s[Len(s)] = "B"
                  /\ s[Len(s) - 3] = "."
                  /\ NearestBillionths(DigitsValue(s), value)
            /\ (value # None /\ ~value.neg /\ value.hi \in 1..999) =>
                  /\ s[1] = "$" /\ s[Len(s)] = "M"
                  /\ s[Len(s) - 3] = "."
                  /\ NearestMillionths(DigitsValue(s), value)
            /\ (value # None /\ (value.neg \/ value.hi = 0)) =>
                  PlainSays(s, value)
            /\ value = Num(FALSE, 2500, 0)
                  => s = <<"$", "2", ".", "5", "0", "B">>
            /\ value = Num(FALSE, 2, 500000)
                  => s = <<"$", "2", ".", "5", "0", "M">>
            /\ value = Num(FALSE, 0, 999)
                  => s = <<"$", "9", "9", "9", ".", "0", "0">>

C10_Witness ==
    /\ pc = "currency_done"
    /\ value = Num(FALSE, 2500, 0)
    /\ formatted = Str(<<"$", "2", ".", "5", "0", "B">>)

====
